---- MODULE Spec2Model ----
(***************************************************************************)
(* A model of the regret-minimisation harness:                             *)
(*   utils/sample_strategy.py  the index-selection strategies              *)
(*   utils/game_maker.py       make_game                                   *)
(*   multi_runner.py           main, the run / round loop                  *)
(* Numbers are exact: a distribution is kept as integer numerators over a  *)
(* common denominator, utilities and bounds as integers in a fixed unit.   *)
(* The game class, the solvers and the regret evaluator (game.py,          *)
(* utils/algos.py, utils/regret.py) are not among the sources; what the    *)
(* model needs of them follows their description (FreshGame, GameSample,   *)
(* RecomputeBounds, next_sample_prob, regrets, av_regret).                 *)
(***************************************************************************)
EXTENDS Integers, Sequences, FiniteSets, TLC

\* ------------------------------------------------------------- bounds
\* estimates of the potential are 0..MaxEst, exploration bonuses 0..MaxBonus
MaxEst == 1
MaxBonus == 1
\* only the first MaxCells cells (row-major) are ever sampled or re-bounded
MaxCells == 4
\* 1e-8, the floor prob_active gives a masked cell, is one unit; 1.0 is EpsInv
EpsInv == 100000000

\* the dimensions n the strategies are run on (two players: the strategies
\* index every tensor with a pair)
Dims == {2, 3}

\* potential values are 0..MaxPot (randint's range, shifted and cut), in
\* units of 1/100000; congestion means are 0..MaxMean
MaxPot == 1
MaxMean == 1
\* main is run with runs in 0..MaxRuns and timesteps in 0..MaxTimesteps; a
\* round's regret is one of 0..MaxRegret
MaxRuns == 2
MaxTimesteps == 2
MaxRegret == 1
\* the 0.25 added to every utility, in units of 1/100000
Offset == 25000

\* the (n, k) make_game is called with
Shapes == {<<2, 2>>, <<3, 2>>, <<2, 3>>}

GameTypes == {"random", "congestion", "zero_sum"}

VARIABLES
    Game,       \* the game object: n, k, KnownU1 (= KnownUs[0]), OptPhi, PesPhi
    strategy,   \* the code sample_index was last called with ("" before)
    result,     \* what that call returned
    \* make_game
    mg_args,    \* its arguments game_type, n, k
    mg_pc,      \* where the call stands
    Potential, unknown_utilitys, congestion_functions_means,
    mg_p, mg_i, \* the loop counters p and i
    mg_ret,     \* what the call returned
    \* main
    kwargs,     \* dimension n, players k, timesteps t_max, runs, game g, solver s
    pc,         \* where main stands
    bound,      \* the locals among Game, algorithm, reg that are bound
    r, t,       \* the loop variables (-1 before the first pass)
    regrets, cumulative_regrets, cumulative_regret,
    algorithm,  \* the solver object (its name)
    reg,        \* the regret object (the per-round values it has seen)
    prob,       \* the distribution next_sample_prob returned
    sample_tuple,
    av_regret_val,
    raised      \* the exception main ended with ("" if none)

svars == <<strategy, result>>
mgvars == <<mg_args, mg_pc, Potential, unknown_utilitys,
            congestion_functions_means, mg_p, mg_i, mg_ret>>
mainvars == <<kwargs, pc, bound, r, t, regrets, cumulative_regrets,
              cumulative_regret, algorithm, reg, prob, sample_tuple,
              av_regret_val, raised>>
vars == <<Game, svars, mgvars, mainvars>>

\* ------------------------------------------------------------- tensors
Cells(dim) == {<<i, j>> : i \in 0..(dim - 1), j \in 0..(dim - 1)}

\* row-major position of a cell, as np.ravel / np.unravel_index count it
Flat(c, dim) == c[1] * dim + c[2]

Touchable(dim) == {c \in Cells(dim) : Flat(c, dim) < MaxCells}

\* np.isnan of an entry of a known-utility tensor ("nan" until it is sampled)
isnan(x) == x = "nan"

\* np.isnan of an entry of OptPhi, which holds numbers
isnan_bound(x) == x \notin Int

\* np.max over a tensor of numbers
NpMax(A) == CHOOSE v \in {A[c] : c \in DOMAIN A} : \A c \in DOMAIN A : A[c] <= v

\* np.min over a tensor of numbers
NpMin(A) == CHOOSE v \in {A[c] : c \in DOMAIN A} : \A c \in DOMAIN A : v <= A[c]

\* np.unravel_index(np.argmax(A)): the first cell, row-major, holding the maximum
ArgMax(A, dim) ==
    CHOOSE c \in DOMAIN A :
        /\ A[c] = NpMax(A)
        /\ \A d \in DOMAIN A : A[d] = NpMax(A) => Flat(c, dim) <= Flat(d, dim)

\* the cells np.isnan(KnownU1) marks
NanCells(game) == {c \in DOMAIN game.KnownU1 : isnan(game.KnownU1[c])}

\* np.argwhere(np.isnan(KnownU1))[0]: the first unknown cell, row-major
FirstNan(game) ==
    CHOOSE c \in NanCells(game) :
        \A d \in NanCells(game) : Flat(c, game.n) <= Flat(d, game.n)

RECURSIVE SumOver(_, _)
SumOver(f, S) ==
    IF S = {} THEN 0
    ELSE LET x == CHOOSE y \in S : TRUE IN f[x] + SumOver(f, S \ {x})

\* np.sum of a tensor
NpSum(f) == SumOver(f, DOMAIN f)

\* ------------------------------------------------------------- results
\* What a call of a strategy comes to:
\*   status "value": it returned a tuple of `arity` components, the chosen
\*           action `action` and the array `dist` / `den` of shape `shape`;
\*   status "none":  it fell off its end and returned None;
\*   status "error": it raised `error`.
\* `picked` is the index pair the strategy had selected when it built its
\* result (<<>> when it had none).
NoResult ==
    [status |-> "idle", error |-> "", arity |-> 0, picked |-> <<>>,
     action |-> <<>>, shape |-> <<>>, dist |-> <<>>, den |-> 1]

ReturnedNone == [NoResult EXCEPT !.status = "none"]

Raised(e) == [NoResult EXCEPT !.status = "error", !.error = e]

Returned(act, shp, d, dn, ar) ==
    [status |-> "value", error |-> "", arity |-> ar, picked |-> <<>>,
     action |-> act, shape |-> shp, dist |-> d, den |-> dn]

WithPick(res, c) == [res EXCEPT !.picked = c]

\* the index tuples of an array of `rank` axes of length `dim`
Indices(dim, rank) == [1..rank -> 0..(dim - 1)]

\* ind_to_prob_matrix_one_zero(sample_tuple, n, k): zeros of shape [n]*k with
\* prob_matrix[sample_tuple] = 1. Indexing with fewer indices than axes sets
\* the whole sub-array; an index past an axis, or more indices than axes, is
\* an IndexError. A scalar sample_tuple is the one-element index.
ind_to_prob_matrix_one_zero(index, dim, rank) ==
    IF \/ Len(index) > rank
       \/ \E a \in 1..Len(index) : index[a] >= dim
    THEN Raised("IndexError")
    ELSE Returned(index,
                  [a \in 1..rank |-> dim],
                  [ix \in Indices(dim, rank) |->
                      IF \A a \in 1..Len(index) : ix[a] = index[a]
                      THEN 1 ELSE 0],
                  1, 2)

\* one-hot call of the two-dimensional strategies: they pass (row, col, game.n)
\* for the helper's (sample_tuple, n, k)
OneHotRowCol(game, c) ==
    WithPick(ind_to_prob_matrix_one_zero(<<c[1]>>, c[2], game.n), c)

\* one-hot call of descending_active_2 / _3: (index tuple, game.n, game.k)
OneHotTuple(game, c) ==
    WithPick(ind_to_prob_matrix_one_zero(c, game.n, game.k), c)

\* the fallback the two-dimensional strategies end with:
\*   if np.any(np.isnan(game.KnownU1)):
\*       return the one-hot of np.argwhere(np.isnan(game.KnownU1))[0]
\* and nothing after it: with no unknown cell the function returns None
FirstNanFallback(game) ==
    IF NanCells(game) # {} THEN OneHotRowCol(game, FirstNan(game))
    ELSE ReturnedNone

\* the members of S that come first when S is sorted by key, descending
\* (argsort's default kind is not stable: equal keys come in either order)
TopBy(S, key) == {c \in S : \A d \in S : key[d] <= key[c]}

\* ------------------------------------------------------------- strategies
\* Each strategy is the set of results a call can come to (one result unless
\* the call draws at random or sorts equal keys).

\* descending_active: in descending order of OptPhi - PesPhi, return the first
\* cell with OptPhi > max(PesPhi) and np.isnan(OptPhi[cell]); OptPhi holds
\* numbers (and a NaN is greater than nothing), so no cell passes both tests.
descending_active(game) ==
    LET gap == [c \in DOMAIN game.OptPhi |-> game.OptPhi[c] - game.PesPhi[c]]
        hits == {c \in DOMAIN game.OptPhi :
                    /\ game.OptPhi[c] > NpMax(game.PesPhi)
                    /\ isnan_bound(game.OptPhi[c])}
    IN IF hits # {} THEN {OneHotRowCol(game, c) : c \in TopBy(hits, gap)}
       ELSE {FirstNanFallback(game)}

\* random_active: the argmax of OptPhi when it is unknown; else, when more than
\* one unknown cell has OptPhi >= max(PesPhi), one of them drawn at random;
\* else (one such cell or none) the first unknown cell
random_active(game) ==
    LET top == ArgMax(game.OptPhi, game.n)
        nan_new_act == {c \in DOMAIN game.OptPhi :
                           /\ game.OptPhi[c] >= NpMax(game.PesPhi)
                           /\ isnan(game.KnownU1[c])}
    IN IF isnan(game.KnownU1[top]) THEN {OneHotRowCol(game, top)}
       ELSE IF Cardinality(nan_new_act) > 1
            THEN {OneHotRowCol(game, c) : c \in nan_new_act}
       ELSE {FirstNanFallback(game)}

\* nearby_then_random: the argmax of OptPhi, then its neighbours in the order
\* left, right, below, above
nearby_then_random(game) ==
    LET top == ArgMax(game.OptPhi, game.n)
        ind1 == top[1]
        ind2 == top[2]
    IN {IF isnan(game.KnownU1[top]) THEN OneHotRowCol(game, top)
        ELSE IF 0 <= ind2 - 1 /\ isnan(game.KnownU1[<<ind1, ind2 - 1>>])
             THEN OneHotRowCol(game, <<ind1, ind2 - 1>>)
        ELSE IF ind2 + 1 < game.n /\ isnan(game.KnownU1[<<ind1, ind2 + 1>>])
             THEN OneHotRowCol(game, <<ind1, ind2 + 1>>)
        ELSE IF ind1 + 1 < game.n /\ isnan(game.KnownU1[<<ind1 + 1, ind2>>])
             THEN OneHotRowCol(game, <<ind1 + 1, ind2>>)
        ELSE IF 0 <= ind1 - 1 /\ isnan(game.KnownU1[<<ind1 - 1, ind2>>])
             THEN OneHotRowCol(game, <<ind1 - 1, ind2>>)
        ELSE FirstNanFallback(game)}

\* random_index (KnownUs[0] is KnownU1)
random_index(game) == {FirstNanFallback(game)}

\* opt_then_random
opt_then_random(game) ==
    LET top == ArgMax(game.OptPhi, game.n)
    IN {IF isnan(game.KnownU1[top]) THEN OneHotRowCol(game, top)
        ELSE FirstNanFallback(game)}

\* pes_then_random
pes_then_random(game) ==
    LET top == ArgMax(game.PesPhi, game.n)
    IN {IF isnan(game.KnownU1[top]) THEN OneHotRowCol(game, top)
        ELSE FirstNanFallback(game)}

\* low_then_random: no fallback at all
low_then_random(game) ==
    LET top == ArgMax(game.PesPhi, game.n)
    IN {IF isnan(game.KnownU1[top]) THEN OneHotRowCol(game, top)
        ELSE ReturnedNone}

\* prob_match: every cell starts at 1 and gains a weight over n**2; the
\* numerators below are the entries times n**2, the denominator their sum
\* (prob_matrix / np.sum(prob_matrix)). The draw is over the flattened array,
\* i = choice // n, j = choice % n, and the function returns i, j, prob_matrix.
prob_match(game) ==
    LET d == game.n
        top == ArgMax(game.OptPhi, d)
        w == [c \in Cells(d) |->
                d * d
                + (IF c = top THEN (d - 1) * (d - 1) + 2 * (d - 1) ELSE 0)
                + (IF c[1] # top[1] /\ c[2] # top[2] THEN 3
                   ELSE IF c[1] = top[1] /\ c[2] # top[2] THEN 2 * (d - 1) + 1
                   ELSE IF c[2] = top[2] /\ c[1] # top[1] THEN 2 * (d - 1) + 1
                   ELSE 0)]
    IN {WithPick(Returned(c, <<d, d>>, w, NpSum(w), 3), c) :
            c \in {x \in Cells(d) : w[x] > 0}}

\* prob_active: OptPhi with every cell below max(PesPhi) set to 1e-8, divided
\* by its sum. np.random.choice refuses a p with a negative or NaN entry
\* (ValueError); a sum of 0 makes every entry NaN or infinite.
prob_active(game) ==
    LET Phi == [c \in DOMAIN game.OptPhi |->
                   IF game.OptPhi[c] < NpMax(game.PesPhi) THEN 1
                   ELSE game.OptPhi[c] * EpsInv]
        total == NpSum(Phi)
        bad == \/ total = 0
               \/ \E c \in DOMAIN Phi : (Phi[c] > 0 /\ total < 0) \/ (Phi[c] < 0 /\ total > 0)
    IN IF bad THEN {Raised("ValueError")}
       ELSE {WithPick(Returned(c, <<game.n, game.n>>, Phi, total, 2), c) :
                c \in {x \in DOMAIN Phi : Phi[x] # 0}}

\* descending_active_2: the cells sorted by OptPhi, descending (all of them:
\* num_top_values = 100 keeps the last 100 of the argsort). sorted_indices[1]
\* holds the second largest OptPhi (the largest when two cells share it). The
\* last resort draws with np.random.choice from a two-dimensional array, which
\* np.random.choice refuses (ValueError).
descending_active_2(game) ==
    LET O == game.OptPhi
        tops == TopBy(DOMAIN O, O)
        second == IF Cardinality(tops) > 1 THEN NpMax(O)
                  ELSE NpMax([c \in (DOMAIN O) \ tops |-> O[c]])
        hits == {c \in DOMAIN O : isnan(game.KnownU1[c]) /\ O[c] > NpMax(game.PesPhi)}
    IN IF second < NpMax(game.PesPhi) THEN {OneHotTuple(game, c) : c \in tops}
       ELSE IF hits # {} THEN {OneHotTuple(game, c) : c \in TopBy(hits, O)}
       ELSE {Raised("ValueError")}

\* descending_active_3: the one-hot of the cell sorted first by OptPhi, descending
descending_active_3(game) ==
    {OneHotTuple(game, c) : c \in TopBy(DOMAIN game.OptPhi, game.OptPhi)}

\* the codes of sample_index the model runs (pa3 and pa4, which read
\* Game.Values and Game.UnknownGame, are left out)
Codes == {"d", "ra", "nr", "r", "or", "lr", "pr", "pm", "pa", "da", "da2"}

\* sample_index(Game, i); a code it does not know falls through to None
sample_index(game, i) ==
    CASE i = "d" -> descending_active(game)
      [] i = "ra" -> random_active(game)
      [] i = "nr" -> nearby_then_random(game)
      [] i = "r" -> random_index(game)
      [] i = "or" -> opt_then_random(game)
      [] i = "lr" -> low_then_random(game)
      [] i = "pr" -> pes_then_random(game)
      [] i = "pm" -> prob_match(game)
      [] i = "pa" -> prob_active(game)
      [] i = "da" -> descending_active_2(game)
      [] i = "da2" -> descending_active_3(game)
      [] OTHER -> {ReturnedNone}

\* ------------------------------------------------------------- the game
\* a game as constructed: no utility known, every bound at its widest
FreshGame(dim) ==
    [n |-> dim, k |-> 2,
     KnownU1 |-> [c \in Cells(dim) |-> "nan"],
     OptPhi |-> [c \in Cells(dim) |-> MaxEst + MaxBonus],
     PesPhi |-> [c \in Cells(dim) |-> 0 - MaxBonus]]

\* RecomputeBounds with the bonus taken off the optimistic bound and added to
\* the pessimistic one
RecomputeBoundsInverted(game, c, est, b) ==
    [game EXCEPT !.OptPhi[c] = est - b, !.PesPhi[c] = est + b]

\* the confidence bounds of cell c recomputed: estimate est, bonus b
RecomputeBounds(game, c, est, b) ==
    [game EXCEPT !.OptPhi[c] = est + b, !.PesPhi[c] = est - b]

\* Game.sample(a): the utilities at a become known, its bounds follow the
\* estimate est with bonus b
GameSample(game, a, est, b) ==
    RecomputeBounds([game EXCEPT !.KnownU1[a] = "obs"], a, est, b)

\* ------------------------------------------------------------- main
MainIdle ==
    /\ kwargs = [n |-> 0, k |-> 0, t_max |-> 0, runs |-> 0, g |-> "", s |-> ""]
    /\ pc = "idle"
    /\ bound = {}
    /\ r = 0 - 1
    /\ t = 0 - 1
    /\ regrets = <<>>
    /\ cumulative_regrets = <<>>
    /\ cumulative_regret = 0
    /\ algorithm = ""
    /\ reg = <<>>
    /\ prob = NoResult
    /\ sample_tuple = <<>>
    /\ av_regret_val = [num |-> 0, den |-> 0]
    /\ raised = ""

MgIdle ==
    /\ mg_args = [game_type |-> "", n |-> 0, k |-> 0]
    /\ mg_pc = "idle"
    /\ Potential = <<>>
    /\ unknown_utilitys = <<>>
    /\ congestion_functions_means = <<>>
    /\ mg_p = 0
    /\ mg_i = 0
    /\ mg_ret = "pending"

\* the --solver names main knows, and one it does not
SolverNames == {"optimistic", "nash_ucb", "exp_weight", "nash_ca"}
SolverArgs == SolverNames \cup {"random_index"}

\* algorithm.next_sample_prob(Game): a distribution over the joint actions,
\* all its mass on one of them or spread evenly over all
next_sample_prob(game) ==
    {ind_to_prob_matrix_one_zero(c, game.n, game.k) : c \in Touchable(game.n)}
    \cup {Returned(<<>>, <<game.n, game.n>>, [c \in Cells(game.n) |-> 1],
                   Cardinality(Cells(game.n)), 2)}

\* reg.av_regret(e): the mean of the per-round values the regret object has
\* seen, as sum over count
av_regret(history) == [num |-> NpSum(history), den |-> Len(history)]

\* cumulative_regret = regrets[r][t], the sum forgotten
AddRegretOverwrite(cum, x) == x

\* cumulative_regret += regrets[r][t]
AddRegret(cum, x) == cum + x

\* an uncaught exception ends main
Crash(e) ==
    /\ pc' = "crashed"
    /\ raised' = e

\* for r in range(runs): regrets.append([]); cumulative_regrets.append([])
ForRun ==
    /\ pc = "for_r"
    /\ IF r + 1 < kwargs.runs
       THEN /\ r' = r + 1
            /\ regrets' = Append(regrets, <<>>)
            /\ cumulative_regrets' = Append(cumulative_regrets, <<>>)
            /\ pc' = "make_game"
       ELSE /\ pc' = "after_runs"
            /\ UNCHANGED <<r, regrets, cumulative_regrets>>
    /\ UNCHANGED <<kwargs, bound, t, cumulative_regret, algorithm, reg, prob,
                   sample_tuple, av_regret_val, raised, Game, svars, mgvars>>

\* if g == "random": ...; if g == "congestion": ...  (a game object is made
\* from what make_game returns); with any other g neither branch runs
MakeGameObject ==
    /\ pc = "make_game"
    /\ IF kwargs.g \in {"random", "congestion"}
       THEN /\ Game' = FreshGame(kwargs.n)
            /\ bound' = bound \cup {"Game"}
       ELSE UNCHANGED <<Game, bound>>
    /\ pc' = "make_solver"
    /\ UNCHANGED <<kwargs, r, t, regrets, cumulative_regrets, cumulative_regret,
                   algorithm, reg, prob, sample_tuple, av_regret_val, raised,
                   svars, mgvars>>

\* if s == "optimistic": algorithm = optimistic_solver(Game, ...) and the
\* three like it; reading Game while it is unbound raises
MakeSolver ==
    /\ pc = "make_solver"
    /\ IF kwargs.s \in SolverNames
       THEN IF "Game" \in bound
            THEN /\ algorithm' = kwargs.s
                 /\ bound' = bound \cup {"algorithm"}
                 /\ pc' = "make_regret"
                 /\ UNCHANGED raised
            ELSE /\ Crash("UnboundLocalError")
                 /\ UNCHANGED <<algorithm, bound>>
       ELSE /\ pc' = "make_regret"
            /\ UNCHANGED <<algorithm, bound, raised>>
    /\ UNCHANGED <<kwargs, r, t, regrets, cumulative_regrets, cumulative_regret,
                   reg, prob, sample_tuple, av_regret_val, Game, svars, mgvars>>

\* reg = regret(Game); cumulative_regret = 0
MakeRegret ==
    /\ pc = "make_regret"
    /\ IF "Game" \in bound
       THEN /\ reg' = <<>>
            /\ bound' = bound \cup {"reg"}
            /\ cumulative_regret' = 0
            /\ t' = 0 - 1
            /\ pc' = "for_t"
            /\ UNCHANGED raised
       ELSE /\ Crash("UnboundLocalError")
            /\ UNCHANGED <<reg, bound, cumulative_regret, t>>
    /\ UNCHANGED <<kwargs, r, regrets, cumulative_regrets, algorithm, prob,
                   sample_tuple, av_regret_val, Game, svars, mgvars>>

\* for t in range(iterations)
ForRound ==
    /\ pc = "for_t"
    /\ IF t + 1 < kwargs.t_max
       THEN t' = t + 1 /\ pc' = "round_prob"
       ELSE pc' = "for_r" /\ UNCHANGED t
    /\ UNCHANGED <<kwargs, bound, r, regrets, cumulative_regrets, cumulative_regret,
                   algorithm, reg, prob, sample_tuple, av_regret_val, raised,
                   Game, svars, mgvars>>

\* prob = algorithm.next_sample_prob(Game)
RoundProb ==
    /\ pc = "round_prob"
    /\ IF "algorithm" \in bound
       THEN /\ \E d \in next_sample_prob(Game) : prob' = d
            /\ pc' = "round_sample"
            /\ UNCHANGED raised
       ELSE /\ Crash("UnboundLocalError")
            /\ UNCHANGED prob
    /\ UNCHANGED <<kwargs, bound, r, t, regrets, cumulative_regrets, cumulative_regret,
                   algorithm, reg, sample_tuple, av_regret_val, Game, svars, mgvars>>

\* choice = np.random.choice(np.arange(prob.size), p=prob.flatten())
\* sample_tuple = np.unravel_index(choice, prob.shape)
\* Game.sample(tuple(sample_tuple))
RoundSample ==
    /\ pc = "round_sample"
    /\ \E ix \in {c \in DOMAIN prob.dist : prob.dist[c] > 0},
          est \in 0..MaxEst, b \in 0..MaxBonus :
           /\ sample_tuple' = ix
           /\ Game' = GameSample(Game, ix, est, b)
    /\ pc' = "round_regret"
    /\ UNCHANGED <<kwargs, bound, r, t, regrets, cumulative_regrets, cumulative_regret,
                   algorithm, reg, prob, av_regret_val, raised, svars, mgvars>>

\* regrets[r].append(reg.regrets(e, prob)); cumulative_regret += regrets[r][t]
\* cumulative_regrets[r].append(cumulative_regret)
RoundRegret ==
    /\ pc = "round_regret"
    /\ \E x \in 0..MaxRegret :
           /\ reg' = Append(reg, x)
           /\ regrets' = [regrets EXCEPT ![r + 1] = Append(@, x)]
           /\ cumulative_regret' = AddRegret(cumulative_regret, x)
           /\ cumulative_regrets' =
                  [cumulative_regrets EXCEPT
                      ![r + 1] = Append(@, AddRegret(cumulative_regret, x))]
    /\ pc' = "for_t"
    /\ UNCHANGED <<kwargs, bound, r, t, algorithm, prob, sample_tuple, av_regret_val,
                   raised, Game, svars, mgvars>>

\* av_regret_val = reg.av_regret(e), then the results are saved and plotted
AfterRuns ==
    /\ pc = "after_runs"
    /\ IF "reg" \in bound
       THEN /\ av_regret_val' = av_regret(reg)
            /\ pc' = "done"
            /\ UNCHANGED raised
       ELSE /\ Crash("UnboundLocalError")
            /\ UNCHANGED av_regret_val
    /\ UNCHANGED <<kwargs, bound, r, t, regrets, cumulative_regrets, cumulative_regret,
                   algorithm, reg, prob, sample_tuple, Game, svars, mgvars>>

\* ------------------------------------------------------------- SpecMain
\* main(**kwargs) on two players with two strategies each
InitMain ==
    /\ \E runs \in 0..MaxRuns, t_max \in 0..MaxTimesteps,
          g \in GameTypes, s \in SolverArgs :
           kwargs = [n |-> 2, k |-> 2, t_max |-> t_max, runs |-> runs,
                     g |-> g, s |-> s]
    /\ pc = "for_r"
    /\ bound = {}
    /\ r = 0 - 1
    /\ t = 0 - 1
    /\ regrets = <<>>
    /\ cumulative_regrets = <<>>
    /\ cumulative_regret = 0
    /\ algorithm = ""
    /\ reg = <<>>
    /\ prob = NoResult
    /\ sample_tuple = <<>>
    /\ av_regret_val = [num |-> 0, den |-> 0]
    /\ raised = ""
    /\ Game = FreshGame(2)
    /\ strategy = ""
    /\ result = NoResult
    /\ MgIdle

NextMain ==
    \/ ForRun
    \/ MakeGameObject
    \/ MakeSolver
    \/ MakeRegret
    \/ ForRound
    \/ RoundProb
    \/ RoundSample
    \/ RoundRegret
    \/ AfterRuns

SpecMain == InitMain /\ [][NextMain]_vars

\* ------------------------------------------------------------- make_game
\* SliceAssign without the carried unknown_utilitys[p][prev_slice]
SliceAssignNoCarry(U, P, p, i) ==
    [ix \in DOMAIN U |->
        IF ix[p + 1] = i
        THEN P[ix] - P[[ix EXCEPT ![p + 1] = i - 1]]
        ELSE U[ix]]

\* unknown_utilitys[p][rel_slice] = unknown_utilitys[p][prev_slice]
\*     + Potential[rel_slice] - Potential[prev_slice]
\* for the slices that fix axis p at i and at i - 1 (U is player p's tensor)
SliceAssign(U, P, p, i) ==
    [ix \in DOMAIN U |->
        IF ix[p + 1] = i
        THEN LET prev == [ix EXCEPT ![p + 1] = i - 1]
             IN U[prev] + P[ix] - P[prev]
        ELSE U[ix]]

\* unknown_utilitys[p] += 0.25
AddOffset(U) == [ix \in DOMAIN U |-> U[ix] + Offset]

\* the first pair (p, i) of the nested loops at or after player p, or the
\* end of the loops (range(1, n) is empty when n = 1)
LoopFrom(p, dim, players) ==
    IF p < players /\ dim > 1 THEN [pc |-> "loop", p |-> p, i |-> 1]
    ELSE [pc |-> "offset", p |-> 0, i |-> 0]

\* game_type == "random": the potential is drawn, the utilities start at zero
MakeRandom ==
    /\ mg_pc = "start"
    /\ mg_args.game_type = "random"
    /\ \E P \in [Indices(mg_args.n, mg_args.k) -> 0..MaxPot] : Potential' = P
    /\ unknown_utilitys' =
           [q \in 1..mg_args.k |-> [ix \in Indices(mg_args.n, mg_args.k) |-> 0]]
    /\ LET nxt == LoopFrom(0, mg_args.n, mg_args.k)
       IN mg_pc' = nxt.pc /\ mg_p' = nxt.p /\ mg_i' = nxt.i
    /\ UNCHANGED <<mg_args, congestion_functions_means, mg_ret, Game, svars, mainvars>>

\* one pass of the body of "for p in range(k): for i in range(1, n)"
LoopStep ==
    /\ mg_pc = "loop"
    /\ unknown_utilitys' =
           [unknown_utilitys EXCEPT
               ![mg_p + 1] = SliceAssign(unknown_utilitys[mg_p + 1], Potential, mg_p, mg_i)]
    /\ IF mg_i + 1 < mg_args.n
       THEN mg_i' = mg_i + 1 /\ UNCHANGED <<mg_pc, mg_p>>
       ELSE LET nxt == LoopFrom(mg_p + 1, mg_args.n, mg_args.k)
            IN mg_pc' = nxt.pc /\ mg_p' = nxt.p /\ mg_i' = nxt.i
    /\ UNCHANGED <<mg_args, Potential, congestion_functions_means, mg_ret, Game, svars, mainvars>>

\* one pass of "for p in range(k): unknown_utilitys[p] += 0.25", and the
\* return after the last
OffsetStep ==
    /\ mg_pc = "offset"
    /\ mg_p < mg_args.k
    /\ unknown_utilitys' =
           [unknown_utilitys EXCEPT ![mg_p + 1] = AddOffset(unknown_utilitys[mg_p + 1])]
    /\ mg_p' = mg_p + 1
    /\ UNCHANGED <<mg_args, mg_pc, Potential, congestion_functions_means, mg_i, mg_ret,
                   Game, svars, mainvars>>

\* return Potential, unknown_utilitys
ReturnRandom ==
    /\ mg_pc = "offset"
    /\ mg_p = mg_args.k
    /\ mg_pc' = "done"
    /\ mg_ret' = "Potential, unknown_utilitys"
    /\ UNCHANGED <<mg_args, Potential, unknown_utilitys, congestion_functions_means,
                   mg_p, mg_i, Game, svars, mainvars>>

\* game_type == "congestion": n facilities, k agents, a mean per facility and agent
MakeCongestion ==
    /\ mg_pc = "start"
    /\ mg_args.game_type = "congestion"
    /\ \E M \in [1..mg_args.n -> [1..mg_args.k -> 0..MaxMean]] :
           congestion_functions_means' = M
    /\ mg_pc' = "done"
    /\ mg_ret' = "number_facilities, number_agents, congestion_functions_means"
    /\ UNCHANGED <<mg_args, Potential, unknown_utilitys, mg_p, mg_i, Game, svars, mainvars>>

\* any other game_type: neither branch is taken and the function ends
MakeOther ==
    /\ mg_pc = "start"
    /\ mg_args.game_type \notin {"random", "congestion"}
    /\ mg_pc' = "done"
    /\ mg_ret' = "None"
    /\ UNCHANGED <<mg_args, Potential, unknown_utilitys, congestion_functions_means,
                   mg_p, mg_i, Game, svars, mainvars>>

\* ------------------------------------------------------------- SpecMakeGame
\* make_game(game_type, n, k) on every kind and shape
InitMakeGame ==
    /\ \E gt \in GameTypes, sh \in Shapes :
           mg_args = [game_type |-> gt, n |-> sh[1], k |-> sh[2]]
    /\ mg_pc = "start"
    /\ Potential = <<>>
    /\ unknown_utilitys = <<>>
    /\ congestion_functions_means = <<>>
    /\ mg_p = 0
    /\ mg_i = 0
    /\ mg_ret = "pending"
    /\ Game = FreshGame(2)
    /\ strategy = ""
    /\ result = NoResult
    /\ MainIdle

NextMakeGame ==
    \/ MakeRandom
    \/ LoopStep
    \/ OffsetStep
    \/ ReturnRandom
    \/ MakeCongestion
    \/ MakeOther

SpecMakeGame == InitMakeGame /\ [][NextMakeGame]_vars

\* ------------------------------------------------------------- Spec
\* The strategies on every game state a run can bring about.
Init ==
    /\ \E dim \in Dims : Game = FreshGame(dim)
    /\ strategy = ""
    /\ result = NoResult
    /\ MgIdle
    /\ MainIdle

\* a round of some run samples cell a
Sample(a, est, b) ==
    /\ strategy = ""
    /\ Game' = GameSample(Game, a, est, b)
    /\ UNCHANGED <<strategy, result, mgvars, mainvars>>

\* the solver recomputes the bounds of cell c
Recompute(c, est, b) ==
    /\ strategy = ""
    /\ Game' = RecomputeBounds(Game, c, est, b)
    /\ UNCHANGED <<strategy, result, mgvars, mainvars>>

\* sample_index(Game, i) is called
Select(i) ==
    /\ strategy = ""
    /\ strategy' = i
    /\ \E res \in sample_index(Game, i) : result' = res
    /\ UNCHANGED <<Game, mgvars, mainvars>>

Next ==
    \/ \E a \in Touchable(Game.n), est \in 0..MaxEst, b \in 0..MaxBonus : Sample(a, est, b)
    \/ \E c \in Touchable(Game.n), est \in 0..MaxEst, b \in 0..MaxBonus : Recompute(c, est, b)
    \/ \E i \in Codes : Select(i)

Spec == Init /\ [][Next]_vars

\* ------------------------------------------------------------- claims
\* the array a result carries, read as a distribution: entry dist[ix] / den
NonNegative(res) ==
    \A ix \in DOMAIN res.dist :
        (res.den > 0 /\ res.dist[ix] >= 0) \/ (res.den < 0 /\ res.dist[ix] <= 0)

SumsToOne(res) == res.den # 0 /\ NpSum(res.dist) = res.den

\* the joint actions a draw from the result's array can give
Support(res) == {ix \in DOMAIN res.dist : res.dist[ix] # 0}

\* an array over the whole joint-action space: k axes of length n
OverJointActions(game, res) ==
    /\ res.shape = [a \in 1..game.k |-> game.n]
    /\ DOMAIN res.dist = Indices(game.n, game.k)

\* mass 1 on exactly the chosen joint action, 0 elsewhere
OneHotOnAction(game, res) ==
    /\ res.action \in Cells(game.n)
    /\ OverJointActions(game, res)
    /\ res.den = 1
    /\ \A ix \in DOMAIN res.dist : res.dist[ix] = (IF ix = res.action THEN 1 ELSE 0)

Deterministic == {"d", "ra", "nr", "r", "or", "pr", "lr", "da", "da2"}

\* C1: every distribution a strategy returns has no negative entry and
\* entries that sum to 1.
C1_DistributionIsValid ==
    (strategy # "" /\ result.status = "value") =>
        NonNegative(result) /\ SumsToOne(result)

\* C2: every strategy returns a pair (chosen_action, distribution) whose
\* distribution is an array over the whole joint-action space, and for a
\* deterministic-pick variant it is one-hot on the chosen joint action.
C2_PairWithOneHot ==
    (strategy # "" /\ result.status = "value") =>
        /\ result.arity = 2
        /\ OverJointActions(Game, result)
        /\ strategy \in Deterministic => OneHotOnAction(Game, result)

\* C3: while a joint action is still unknown, random_index, opt_then_random,
\* pes_then_random and nearby_then_random select only unknown joint actions.
C3_SelectsUnknown ==
    (strategy \in {"r", "or", "pr", "nr"} /\ NanCells(Game) # {}
        /\ result.status = "value") =>
        Support(result) \subseteq NanCells(Game)

\* C4: when no criterion selects an action (every joint action explored;
\* for low_then_random, the PesPhi-argmax known), the strategy still
\* returns a distribution over the joint-action space: never None, never a
\* raised error.
C4_ExplicitFallback ==
    (\/ strategy # "" /\ NanCells(Game) = {}
     \/ strategy = "lr" /\ ~isnan(Game.KnownU1[ArgMax(Game.PesPhi, Game.n)])) =>
        /\ result.status = "value"
        /\ OverJointActions(Game, result)

\* the unexplored joint actions whose OptPhi strictly exceeds max(PesPhi)
ActiveUnexplored(game) ==
    {c \in NanCells(game) : game.OptPhi[c] > NpMax(game.PesPhi)}

\* C10: descending_active selects the first joint action, in descending order
\* of OptPhi - PesPhi, that is unexplored and has OptPhi > max(PesPhi); only
\* when there is none does it fall back to an unexplored action.
C10_DescendingActivePick ==
    (strategy = "d" /\ ActiveUnexplored(Game) # {}) =>
        result.picked \in
            TopBy(ActiveUnexplored(Game),
                  [c \in Cells(Game.n) |-> Game.OptPhi[c] - Game.PesPhi[c]])

\* C7: in a game made by make_game("random", n, k), for every player p and
\* joint actions a, a2 that differ only in p's component,
\* utility_p(a) - utility_p(a2) = Potential(a) - Potential(a2), before,
\* while and after the 0.25 is added.
C7_PotentialGameIdentity ==
    (mg_args.game_type = "random" /\ mg_pc \in {"offset", "done"}) =>
        \A q \in 1..mg_args.k :
            \A a \in DOMAIN Potential, v \in 0..(mg_args.n - 1) :
                LET a2 == [a EXCEPT ![q] = v]
                IN unknown_utilitys[q][a] - unknown_utilitys[q][a2]
                       = Potential[a] - Potential[a2]

\* a returned 3 x 3 game whose potential differs along player 0's axis, two
\* steps apart, with the offset added
C7_Witness ==
    /\ mg_pc = "done"
    /\ mg_args = [game_type |-> "random", n |-> 3, k |-> 2]
    /\ Potential[<<0, 0>>] = 0
    /\ Potential[<<1, 0>>] = 1
    /\ Potential[<<2, 0>>] = 1
    /\ unknown_utilitys[1][<<2, 0>>] = Offset + 1
    /\ unknown_utilitys[1][<<0, 0>>] = Offset

\* C8: make_game with a kind other than "random" or "congestion" fails with
\* an "unsupported game type" error.
C8_UnsupportedKindFails ==
    (mg_pc = "done" /\ mg_args.game_type \notin {"random", "congestion"}) =>
        mg_ret = "error: unsupported game type"

\* the joint actions whose utilities are known
KnownCells(game) == Cells(game.n) \ NanCells(game)

\* C5: run with the solver random_index on a fresh 2 x 2 game, main completes
\* its rounds, each of the first four sampling a joint action not sampled
\* before: after round t + 1 exactly min(t + 1, 4) cells are known.
C5_RandomIndexRun ==
    (/\ kwargs.s = "random_index"
     /\ kwargs.g \in {"random", "congestion"}
     /\ kwargs.runs >= 1
     /\ kwargs.t_max >= 1) =>
        /\ pc # "crashed"
        /\ (pc = "for_t" /\ t >= 0) =>
               Cardinality(KnownCells(Game)) = (IF t + 1 < 4 THEN t + 1 ELSE 4)

C9_AverageOfEveryRun ==
    (pc = "done" /\ kwargs.t_max > 0) =>
        \A q \in 1..kwargs.runs :
            av_regret_val.num * Len(regrets[q]) = NpSum(regrets[q]) * av_regret_val.den

\* C9 as amended: every run's regrets hold one value per round and its
\* running cumulative values are the partial sums of them; the one average
\* reported at the end is the mean of the last run's regrets.
C9_RegretBookkeeping ==
    /\ Len(cumulative_regrets) = Len(regrets)
    /\ \A q \in 1..Len(regrets) :
           /\ Len(cumulative_regrets[q]) = Len(regrets[q])
           /\ \A j \in 1..Len(regrets[q]) :
                  cumulative_regrets[q][j] = SumOver(regrets[q], 1..j)
    /\ pc = "done" =>
           /\ Len(regrets) = kwargs.runs
           /\ \A q \in 1..Len(regrets) : Len(regrets[q]) = kwargs.t_max
           /\ kwargs.t_max > 0 =>
                  av_regret_val = [num |-> NpSum(regrets[kwargs.runs]),
                                   den |-> Len(regrets[kwargs.runs])]

\* two runs of two rounds have ended, with different regrets
C9_Witness ==
    /\ pc = "done"
    /\ regrets = <<<<1, 0>>, <<1, 1>>>>
    /\ cumulative_regrets = <<<<1, 1>>, <<1, 2>>>>
    /\ av_regret_val = [num |-> 2, den |-> 2]

\* the unexplored joint actions with OptPhi >= max(PesPhi)
PlausibleUnexplored(game) ==
    {c \in NanCells(game) : game.OptPhi[c] >= NpMax(game.PesPhi)}

\* the joint actions a call of random_active can select in this game
RandomActivePicks(game) == {res.picked : res \in random_active(game)}

\* C11: while some unexplored joint action has OptPhi >= max(PesPhi),
\* random_active selects an unexplored action with OptPhi >= max(PesPhi),
\* and every such action can be the one it selects; an unexplored action
\* outside that set is selected only when the set is empty.
C11_RandomActivePick ==
    (strategy = "ra" /\ PlausibleUnexplored(Game) # {}) =>
        /\ result.picked \in PlausibleUnexplored(Game)
        /\ RandomActivePicks(Game) = PlausibleUnexplored(Game)

====
